---- MODULE Spec2Model ----
(***************************************************************************)
(* Read-only SQL gatekeeper and execution gateway of                       *)
(* vanna/integrations/mysql/read_only_runner.py (ReadOnlyMySQLRunner).     *)
(*                                                                         *)
(* A SQL string is represented by the sequence of its lexical tokens; the  *)
(* string itself is the concatenation of the tokens (SqlText).  The inputs *)
(* are built from the items of Items, separated by one space each, so that *)
(* the lexer of sqlparse yields exactly the tokens of the sequence.        *)
(***************************************************************************)
EXTENDS Integers, Sequences, FiniteSets, TLC

VARIABLES sql,        \* args.sql of the current run_sql call (token sequence)
          kwOrder,    \* iteration order of the frozenset _BLOCKED_KEYWORDS in this interpreter
          pc,         \* position of the current run_sql call
          decision,   \* outcome of validate_sql in the current call
          firstDecision, \* outcome of the first validation of sql, NoDecision before it
          connOpen,   \* the connection of the current call is open
          acquired,   \* number of connections the current call has opened
          opened,     \* number of connections opened by the runner so far
          closed,     \* number of connections closed by the runner so far
          session,    \* server session of the call's connection (changes on reconnect)
          readOnly,   \* the session of the call's connection is in READ ONLY mode
          sent,       \* statements sent to the database in the current call
          pending,    \* what the call is about to return or raise
          outcome,    \* what the call returned or raised
          calls,      \* number of run_sql calls started
          dbError,    \* the error the database reported in the current call, "none" without
          connOwner,  \* connOwner[c]: the run_sql call that opened connection c
          validations, \* number of times the current call has validated its query
          expired,    \* the database call during which the caller's deadline expired, "none" before
          allowed_statements, \* the allowed_statements argument of the constructor
          self_allowed, \* self._allowed of the runner
          logger,     \* the logging hook: its class and configuration
          call,       \* arguments of the current post_tool_execution call
          hookPc,     \* position of the current post_tool_execution call
          log,        \* the events written to the audit log so far
          attempts,   \* number of writes to the audit log attempted so far
          toolResult, \* the ToolResult object handed to the hook
          executions, \* number of tool executions reported to the hook
          writing,    \* the entries whose _write_to_database is awaited
          enhancer,   \* the memory enhancer: its class and configuration
          agent_memory, \* context.agent_memory: presence, run_sql entries, failure of the search
          conversation, \* the messages of the conversation handed to enhance_context
          system_message, \* request.system_message
          original_message, \* request.system_message when enhance_context was called
          epc,        \* position of the enhancer
          current_threshold, \* current_threshold of the adaptive search
          searched,   \* the thresholds the adaptive search has searched at, in order
          results,    \* results of the latest memory search
          memory_written \* the memory store has been written since the enhancer was called

runVars == <<sql, kwOrder, pc, decision, firstDecision, connOpen, acquired, opened, closed,
             session, readOnly, sent, pending, outcome, calls, dbError, connOwner,
             validations, expired>>
cfgVars == <<allowed_statements, self_allowed>>
hookVars == <<logger, call, hookPc, log, attempts, toolResult, executions, writing>>
memVars == <<enhancer, agent_memory, conversation, system_message, original_message, epc,
             current_threshold, searched, results, memory_written>>
vars == <<runVars, cfgVars, hookVars, memVars>>

\* ---------------------------------------------------------------- bounds
MaxLen == 3
MaxCalls == 2
MaxExecutions == 1
MaxSearches == 4
MaxEntries == 2

\* ------------------------------------------------------------- constants
_ALLOWED_STATEMENTS == {"SELECT", "SHOW", "DESCRIBE", "DESC", "EXPLAIN"}

_BLOCKED_KEYWORDS ==
    {"INSERT", "UPDATE", "DELETE", "REPLACE", "MERGE", "UPSERT",
     "DROP", "ALTER", "CREATE", "TRUNCATE", "RENAME",
     "GRANT", "REVOKE",
     "LOCK", "UNLOCK", "CALL", "LOAD", "IMPORT", "SET", "KILL", "FLUSH",
     "RESET", "PURGE", "HANDLER", "DO",
     "PREPARE", "EXECUTE", "DEALLOCATE"}

READ_ONLY_DIRECTIVE == <<"SET SESSION TRANSACTION READ ONLY">>

\* ----------------------------------------------------------------- lexis
\* The lexical items inputs are made of.
Items == {"SELECT", "show", "DeLeTe", "USE", "created_at", "'a;b'", "'drop'",
          ";", "/* DROP */", "\n"}

\* The definition of a common table expression, "name AS ( subquery )": the
\* parser groups its tokens into one Identifier, and it is kept as one item.
CteHeader == "t AS (SELECT 1)"

\* str.upper() of a token.
Upper(t) ==
    CASE t = "show"       -> "SHOW"
      [] t = "DeLeTe"     -> "DELETE"
      [] t = "created_at" -> "CREATED_AT"
      [] t = "'a;b'"      -> "'A;B'"
      [] t = "'drop'"     -> "'DROP'"
      [] t = "Explain"    -> "EXPLAIN"
      [] t = "desc"       -> "DESC"
      [] t = "t AS (SELECT 1)" -> "T AS (SELECT 1)"
      [] OTHER            -> t

\* Mutant: the pattern is matched without the \b anchors, so that a keyword
\* inside a longer word is found as well.
Words_without_boundaries(t) ==
    CASE t \in {"SELECT", "SHOW", "DELETE", "USE", "WITH", "INSERT", "SET", "EXPLAIN",
                "DESC", "DESCRIBE"} -> {t}
      [] t = "CREATED_AT" -> {"CREATED_AT", "CREATE"}
      [] t = "T AS (SELECT 1)" -> {"T", "AS", "SELECT", "1"}
      [] t = "'A;B'"      -> {"A", "B"}
      [] t = "'DROP'"     -> {"DROP"}
      [] t = "/* DROP */" -> {"DROP"}
      [] OTHER            -> {}

\* The maximal runs of word characters (\w+) of an upper-cased token: the
\* strings a pattern \bKEYWORD\b can match in it.
Words(t) ==
    CASE t \in {"SELECT", "SHOW", "DELETE", "USE", "CREATED_AT", "WITH", "INSERT", "SET",
                "EXPLAIN", "DESC", "DESCRIBE"} -> {t}
      [] t = "T AS (SELECT 1)" -> {"T", "AS", "SELECT", "1"}
      [] t = "'A;B'"      -> {"A", "B"}
      [] t = "'DROP'"     -> {"DROP"}
      [] t = "/* DROP */" -> {"DROP"}
      [] OTHER            -> {}

\* Token types of the sqlparse lexer (sqlparse.keywords.SQL_REGEX); for the
\* definition of a common table expression, the type of its first token.
TType(t) ==
    CASE t \in {"SELECT", "DeLeTe", "DELETE", "INSERT"} -> "Keyword.DML"
      [] t \in {"show", "SHOW", "USE", "SET", "Explain", "EXPLAIN", "DESCRIBE"} -> "Keyword"
      [] t \in {"desc", "DESC"}                 -> "Keyword.Order"
      [] t = "WITH"                             -> "Keyword.CTE"
      [] t \in {"created_at", "CREATED_AT", "t AS (SELECT 1)", "T AS (SELECT 1)"} -> "Name"
      [] t \in {"'a;b'", "'drop'", "'A;B'", "'DROP'"} -> "String.Single"
      [] t = ";"                                -> "Punctuation"
      [] t = "/* DROP */"                       -> "Comment.Multiline"
      [] t = " "                                -> "Whitespace"
      [] t = "\n"                               -> "Whitespace.Newline"
      [] OTHER                                  -> "Error"

is_whitespace(t) == TType(t) \in {"Whitespace", "Whitespace.Newline"}
is_comment(t) == TType(t) = "Comment.Multiline"

\* The parser (sqlparse.engine.grouping) makes an Identifier of the token: a
\* name, alone or with "AS ( ... )".
is_identifier(t) == TType(t) = "Name"

RECURSIVE SqlText(_)
SqlText(toks) == IF toks = <<>> THEN "" ELSE Head(toks) \o SqlText(Tail(toks))

\* The token sequence of the items separated by one space.
RECURSIVE Spaced(_)
Spaced(items) ==
    IF Len(items) <= 1 THEN items
    ELSE <<Head(items), " ">> \o Spaced(Tail(items))

Inputs == {Spaced(s) : s \in UNION {[1..n -> Items] : n \in 0..MaxLen}}

\* ------------------------------------------------------------- str.strip
RECURSIVE lstrip(_)
lstrip(toks) ==
    IF toks # <<>> /\ is_whitespace(Head(toks)) THEN lstrip(Tail(toks)) ELSE toks

RECURSIVE rstrip(_)
rstrip(toks) ==
    IF toks # <<>> /\ is_whitespace(toks[Len(toks)])
    THEN rstrip(SubSeq(toks, 1, Len(toks) - 1)) ELSE toks

strip(toks) == rstrip(lstrip(toks))

\* ------------------------------------------------- sqlparse: splitting
\* EOS_TTYPE of the statement splitter: blanks and single-line comments after
\* a terminator still belong to the statement; a newline does not.
IsEOS(t) == TType(t) \in {"Whitespace", "Comment.Single"}

all_whitespace(toks) == \A i \in 1..Len(toks) : is_whitespace(toks[i])

\* StatementSplitter._change_splitlevel: parentheses and CREATE ... BEGIN
\* blocks raise the level; none of the tokens of Items does, and the
\* parentheses of CteHeader are balanced.
change_splitlevel(t) == 0

\* StatementSplitter.process: a statement ends after a ';' at level <= 0 and
\* the blanks that follow it; a trailing all-whitespace rest is dropped.
RECURSIVE SplitFrom(_, _, _, _, _, _)
SplitFrom(toks, i, level, consume_ws, cur, out) ==
    IF i > Len(toks)
    THEN IF cur # <<>> /\ ~all_whitespace(cur) THEN Append(out, cur) ELSE out
    ELSE LET t      == toks[i]
             flush  == consume_ws /\ ~IsEOS(t)
             cur1   == IF flush THEN <<>> ELSE cur
             out1   == IF flush THEN Append(out, cur) ELSE out
             level1 == (IF flush THEN 0 ELSE level) + change_splitlevel(t)
             cw1    == IF level1 <= 0 /\ t = ";" THEN TRUE
                       ELSE IF flush THEN FALSE ELSE consume_ws
         IN  SplitFrom(toks, i + 1, level1, cw1, Append(cur1, t), out1)

StatementSplitter(toks) == SplitFrom(toks, 1, 0, FALSE, <<>>, <<>>)

\* sqlparse.parse: the statements of a string.
parse(toks) == StatementSplitter(toks)

\* -------------------------------------------------- sqlparse: filters
\* StripCommentsFilter: a comment is replaced by one blank, or removed
\* without replacement when nothing precedes it in its statement.
RECURSIVE StripCommentsFrom(_, _, _)
StripCommentsFrom(toks, i, acc) ==
    IF i > Len(toks) THEN acc
    ELSE IF is_comment(toks[i])
         THEN StripCommentsFrom(toks, i + 1,
                                IF acc = <<>> THEN acc ELSE Append(acc, " "))
         ELSE StripCommentsFrom(toks, i + 1, Append(acc, toks[i]))

StripComments(stmt) == StripCommentsFrom(stmt, 1, <<>>)

\* StripWhitespaceFilter._stripws_default: a whitespace token becomes '' when
\* it is first or follows whitespace, else one blank.
RECURSIVE StripWsFrom(_, _, _, _)
StripWsFrom(toks, i, last_was_ws, acc) ==
    IF i > Len(toks) THEN acc
    ELSE LET w == is_whitespace(toks[i])
             v == IF ~w THEN <<toks[i]>>
                  ELSE IF last_was_ws \/ i = 1 THEN <<>> ELSE <<" ">>
         IN  StripWsFrom(toks, i + 1, w, acc \o v)

\* StripWhitespaceFilter.process followed by SerializerUnicode.process, which
\* drops what whitespace is left at the end of the statement.
StripWhitespace(stmt) == rstrip(StripWsFrom(stmt, 1, FALSE, <<>>))

RECURSIVE JoinStatements(_)
JoinStatements(stmts) ==
    IF stmts = <<>> THEN <<>> ELSE Head(stmts) \o JoinStatements(Tail(stmts))

\* sqlparse.format(sql, strip_comments=True, strip_whitespace=True)
format(toks) ==
    LET stmts == StatementSplitter(toks)
    IN  JoinStatements([k \in 1..Len(stmts) |->
                            StripWhitespace(StripComments(stmts[k]))])

\* Mutant: the text is inspected as it was given, comments included.
cleaned_without_format(raw) == strip(raw)

\* cleaned of validate_sql: the text that is inspected (the CanonicalQuery).
cleaned(raw) == strip(format(strip(raw)))

\* ------------------------------------------- sqlparse: classification
\* Statement.token_first(skip_cm=True, skip_ws=True); <<>> stands for None.
RECURSIVE token_first(_)
token_first(stmt) ==
    IF stmt = <<>> THEN <<>>
    ELSE IF is_whitespace(Head(stmt)) \/ is_comment(Head(stmt))
         THEN token_first(Tail(stmt))
         ELSE <<Head(stmt)>>

\* Statement.token_next(idx, skip_ws=True): the tokens after position idx
\* from the first one that is not whitespace.
token_next(stmt, idx) == lstrip(SubSeq(stmt, idx + 1, Len(stmt)))

\* Index of the first token that is neither whitespace nor a comment.
RECURSIVE token_index(_, _)
token_index(stmt, i) ==
    IF i > Len(stmt) THEN 0
    ELSE IF is_whitespace(stmt[i]) \/ is_comment(stmt[i]) THEN token_index(stmt, i + 1)
         ELSE i

\* Mutant: a statement that starts with WITH has no type of its own.
cte_type_unknown(stmt) == "UNKNOWN"

\* Statement.get_type() for a first token WITH: the keyword is followed by
\* the Identifier (or IdentifierList) of the definitions, and the DML keyword
\* after it is the type.
cte_type(stmt) ==
    LET after_with == token_next(stmt, token_index(stmt, 1))
    IN  IF after_with # <<>> /\ is_identifier(after_with[1])
        THEN LET dml_keyword == token_next(after_with, 1)
             IN  IF dml_keyword # <<>> /\ TType(dml_keyword[1]) = "Keyword.DML"
                 THEN Upper(dml_keyword[1])
                 ELSE "UNKNOWN"
        ELSE "UNKNOWN"

\* Statement.get_type(): the normalized first token when it is a DML or DDL
\* keyword, the DML keyword after the definitions of a WITH, else "UNKNOWN".
get_type(stmt) ==
    LET first == token_first(stmt)
    IN  IF first = <<>> THEN "UNKNOWN"
        ELSE IF TType(first[1]) \in {"Keyword.DML", "Keyword.DDL"}
             THEN Upper(first[1])
             ELSE IF TType(first[1]) = "Keyword.CTE" THEN cte_type(stmt)
             ELSE "UNKNOWN"

\* Mutant: no fallback to the first token for "UNKNOWN".
stmt_type_without_fallback(stmt) == get_type(stmt)

\* stmt_type of validate_sql: get_type(), and for "UNKNOWN" the upper-cased
\* text of the first token.  (When the first token opens a parser group, the
\* text is that of the whole group; it starts with the token modelled here.)
stmt_type(stmt) ==
    LET t == get_type(stmt)
        first == token_first(stmt)
    IN  IF t = "UNKNOWN" /\ first # <<>> THEN Upper(first[1]) ELSE t

\* ------------------------------------------------------- the deny-list
\* normalized of validate_sql, as the set of its whole words.
normalized_words(text) == UNION {Words(Upper(text[i])) : i \in 1..Len(text)}

\* Mutant: the scan compares without upper-casing the text.
keyword_found_case_sensitive(keyword, text) ==
    keyword \in UNION {Words(text[i]) : i \in 1..Len(text)}

\* re.search(rf"\b{keyword}\b", normalized)
keyword_found(keyword, text) == keyword \in normalized_words(text)

\* The loop over _BLOCKED_KEYWORDS: the first keyword, in the iteration order
\* of the set, that is found; "" when none is.
RECURSIVE first_blocked(_, _)
first_blocked(order, text) ==
    IF order = <<>> THEN ""
    ELSE IF keyword_found(Head(order), text) THEN Head(order)
         ELSE first_blocked(Tail(order), text)

\* The iteration order of a frozenset of str follows the string hashes, which
\* are randomized per interpreter process: any order of the keywords can
\* occur.  The orders kept here differ on the keywords Items can spell.
OtherKeywords ==
    <<"INSERT", "UPDATE", "REPLACE", "MERGE", "UPSERT", "ALTER", "CREATE",
      "TRUNCATE", "RENAME", "GRANT", "REVOKE", "LOCK", "UNLOCK", "CALL",
      "LOAD", "IMPORT", "SET", "KILL", "FLUSH", "RESET", "PURGE", "HANDLER",
      "DO", "PREPARE", "EXECUTE", "DEALLOCATE">>

IterationOrders == {<<"DELETE", "DROP">> \o OtherKeywords,
                    <<"DROP", "DELETE">> \o OtherKeywords}

\* ------------------------------------------------------------ decisions
NoDecision == [status |-> "None", reason |-> "", token |-> ""]
Approved == [status |-> "Approved", reason |-> "", token |-> ""]
Rejected(reason, token) == [status |-> "Rejected", reason |-> reason, token |-> token]

EmptyQuery == "Empty SQL query"
EmptyAfterComments == "SQL query is empty after removing comments"
ParseFailure == "Could not parse SQL query"
MultiStatement == "Multi-statement queries are not allowed"
DisallowedStatementType == "Statement type is not allowed"
BlockedKeyword == "Query contains blocked keyword"

\* non_empty of validate_sql: the statements whose text is not blank.
non_empty(statements) == SelectSeq(statements, LAMBDA s : strip(s) # <<>>)

\* Mutant: one extra statement is let through.
is_multi_statement_more_than_two(statements) == Len(non_empty(statements)) > 2

is_multi_statement(statements) == Len(non_empty(statements)) > 1

\* Mutant: the head is checked against the deny-list instead of the allow-list.
type_allowed_not_blocked(type, allowed) == type # "" /\ type \notin _BLOCKED_KEYWORDS

type_allowed(type, allowed) == type # "" /\ type \in allowed

\* Mutant: the body is scanned for blocked keywords before the statement type
\* is checked.
validate_sql_scan_first(raw, allowed, order) ==
    IF strip(raw) = <<>> THEN Rejected(EmptyQuery, "")
    ELSE IF cleaned(raw) = <<>> THEN Rejected(EmptyAfterComments, "")
    ELSE LET statements == parse(cleaned(raw))
         IN  IF statements = <<>> THEN Rejected(ParseFailure, "")
             ELSE IF is_multi_statement(statements) THEN Rejected(MultiStatement, "")
             ELSE IF first_blocked(order, cleaned(raw)) # ""
                  THEN Rejected(BlockedKeyword, first_blocked(order, cleaned(raw)))
             ELSE IF ~type_allowed(stmt_type(non_empty(statements)[1]), allowed)
                  THEN Rejected(DisallowedStatementType, "")
             ELSE Approved

\* ReadOnlyMySQLRunner.validate_sql
validate_sql(raw, allowed, order) ==
    IF strip(raw) = <<>> THEN Rejected(EmptyQuery, "")
    ELSE IF cleaned(raw) = <<>> THEN Rejected(EmptyAfterComments, "")
    ELSE LET statements == parse(cleaned(raw))
         IN  IF statements = <<>> THEN Rejected(ParseFailure, "")
             ELSE IF is_multi_statement(statements) THEN Rejected(MultiStatement, "")
             ELSE IF ~type_allowed(stmt_type(non_empty(statements)[1]), allowed)
                  THEN Rejected(DisallowedStatementType, "")
             ELSE IF first_blocked(order, cleaned(raw)) # ""
                  THEN Rejected(BlockedKeyword, first_blocked(order, cleaned(raw)))
             ELSE Approved

\* ------------------------------------------------- ReadOnlyMySQLRunner
\* The values of the constructor's allowed_statements argument: the default
\* None, or a list of statement types.
None == [given |-> FALSE, items |-> <<>>]
List(items) == [given |-> TRUE, items |-> items]
CtorArgs == {None, List(<<>>), List(<<"show", "USE">>), List(<<"DeLeTe">>)}

\* Truth value of the argument in "... if allowed_statements else ...":
\* None and the empty list are false.
truthy(arg) == arg.given /\ arg.items # <<>>

\* Mutant: the statement types of the caller are stored as they were given.
init_allowed_as_given(arg) ==
    IF truthy(arg) THEN {arg.items[i] : i \in DOMAIN arg.items}
    ELSE _ALLOWED_STATEMENTS

\* __init__: self._allowed = frozenset(s.upper() for s in allowed_statements)
\*           if allowed_statements else _ALLOWED_STATEMENTS
init_allowed(arg) ==
    IF truthy(arg) THEN {Upper(arg.items[i]) : i \in DOMAIN arg.items}
    ELSE _ALLOWED_STATEMENTS

\* self._allowed of the runner.
_allowed == self_allowed

\* The strings given to a runner built with an explicit allowed_statements:
\* those of up to MaxLen - 2 items.
ConfiguredInputs == {Spaced(s) : s \in UNION {[1..n -> Items] : n \in 0..(MaxLen - 2)}}

\* No logging hook is registered, no post_tool_execution call is in progress.
NoLogger == [class |-> "none", log_all_tools |-> FALSE, include_result_preview |-> FALSE,
             overrides_write |-> FALSE]

\* context.metadata: the value under "question" ("absent" without the key),
\* and whether the keys conversation_turn, retry_count and any other key are
\* in the dict.  NoMetadata is the empty dict.
NoMetadata == [question |-> "absent", conversation_turn |-> FALSE, retry_count |-> FALSE,
               other |-> FALSE]
NoCall == [tool_name |-> "", success |-> FALSE, error |-> "None", arguments |-> FALSE,
           serialisable |-> TRUE, metadata |-> NoMetadata]
NoResult == [success |-> FALSE, error |-> "None"]

Directive(ok) == [kind |-> "directive", text |-> READ_ONLY_DIRECTIVE,
                  session |-> session, ok |-> ok]
UserStatement(ok) == [kind |-> "user", text |-> sql, session |-> session, ok |-> ok]

\* No memory enhancer is registered.
NoEnhancer == [class |-> "none", max_examples |-> 0, similarity_threshold |-> 0,
               example_format |-> "None", initial_threshold |-> 0, min_threshold |-> 0,
               threshold_step |-> 0, min_examples |-> 0]
NoMemory == [present |-> FALSE, entries |-> <<>>, fails |-> FALSE]
NoMessage == [none |-> TRUE, text |-> <<>>]

NoEnhancement ==
    /\ enhancer = NoEnhancer
    /\ agent_memory = NoMemory
    /\ conversation = <<>>
    /\ system_message = NoMessage
    /\ original_message = NoMessage
    /\ epc = "idle"
    /\ current_threshold = 0
    /\ searched = <<>>
    /\ results = <<>>
    /\ memory_written = FALSE

\* The runner has been constructed and run_sql(args) has been called.
Init ==
    /\ allowed_statements \in CtorArgs
    /\ self_allowed = init_allowed(allowed_statements)
    /\ sql \in IF allowed_statements = None THEN Inputs ELSE ConfiguredInputs
    /\ kwOrder \in IterationOrders
    /\ pc = "validate"
    /\ decision = NoDecision
    /\ firstDecision = NoDecision
    /\ connOpen = FALSE
    /\ acquired = 0
    /\ opened = 0
    /\ closed = 0
    /\ session = 0
    /\ readOnly = FALSE
    /\ sent = <<>>
    /\ pending = "none"
    /\ outcome = "none"
    /\ calls = 1
    /\ dbError = "none"
    /\ connOwner = <<>>
    /\ validations = 0
    /\ expired = "none"
    /\ logger = NoLogger
    /\ call = NoCall
    /\ hookPc = "idle"
    /\ log = <<>>
    /\ attempts = 0
    /\ toolResult = NoResult
    /\ executions = 0
    /\ writing = <<>>
    /\ NoEnhancement

\* Mutant: validation remembers the type of an approved statement in the
\* allow-list of the runner.
Validate_updates_policy ==
    /\ pc = "validate"
    /\ decision' = validate_sql(sql, _allowed, kwOrder)
    /\ firstDecision' = IF firstDecision = NoDecision THEN decision' ELSE firstDecision
    /\ IF decision'.status = "Rejected"
       THEN pc' = "done" /\ outcome' = "ReadOnlyViolationError"
       ELSE pc' = "connect" /\ outcome' = outcome
    /\ self_allowed' = IF decision' = Approved THEN {stmt_type(cleaned(sql))}
                       ELSE self_allowed
    /\ UNCHANGED <<sql, kwOrder, connOpen, acquired, opened, closed, session,
                   readOnly, sent, pending, calls, dbError, connOwner>>
    /\ validations' = validations + 1
    /\ UNCHANGED <<expired, allowed_statements, hookVars, memVars>>

\* Mutant: the rejection is recorded but not raised.
Validate_ignores_rejection ==
    /\ pc = "validate"
    /\ decision' = validate_sql(sql, _allowed, kwOrder)
    /\ firstDecision' = IF firstDecision = NoDecision THEN decision' ELSE firstDecision
    /\ pc' = "connect"
    /\ UNCHANGED <<sql, kwOrder, connOpen, acquired, opened, closed, session,
                   readOnly, sent, pending, outcome, calls, dbError, connOwner>>
    /\ validations' = validations + 1
    /\ UNCHANGED <<expired, cfgVars, hookVars, memVars>>

\* run_sql: self.validate_sql(args.sql); a rejection is raised to the caller.
Validate ==
    /\ pc = "validate"
    /\ decision' = validate_sql(sql, _allowed, kwOrder)
    /\ firstDecision' = IF firstDecision = NoDecision THEN decision' ELSE firstDecision
    /\ IF decision'.status = "Rejected"
       THEN pc' = "done" /\ outcome' = "ReadOnlyViolationError"
       ELSE pc' = "connect" /\ outcome' = outcome
    /\ UNCHANGED <<sql, kwOrder, connOpen, acquired, opened, closed, session,
                   readOnly, sent, pending, calls, dbError, connOwner>>
    /\ validations' = validations + 1
    /\ UNCHANGED <<expired, cfgVars, hookVars, memVars>>

\* Mutant: the connection of an earlier call is taken again when there is one.
Connect_reuses_connection ==
    /\ pc = "connect"
    /\ \E ok \in BOOLEAN :
         IF ok
         THEN /\ connOpen' = TRUE
              /\ acquired' = acquired + 1
              /\ opened' = IF opened = 0 THEN 1 ELSE opened
              /\ closed' = IF opened = 0 THEN closed ELSE closed - 1
              /\ connOwner' = IF opened = 0 THEN <<calls>> ELSE connOwner
              /\ session' = IF opened = 0 THEN session + 1 ELSE session
              /\ readOnly' = IF opened = 0 THEN FALSE ELSE readOnly
              /\ pc' = "ping"
              /\ outcome' = outcome
         ELSE /\ pc' = "done"
              /\ outcome' = "ConnectionFailure"
              /\ UNCHANGED <<connOpen, acquired, opened, closed, connOwner, session,
                             readOnly>>
    /\ UNCHANGED <<sql, kwOrder, decision, firstDecision, sent, pending, calls, dbError>>
    /\ UNCHANGED <<validations, expired, cfgVars, hookVars, memVars>>

\* run_sql: conn = self.pymysql.connect(...); a failure leaves no connection.
Connect ==
    /\ pc = "connect"
    /\ \E ok \in BOOLEAN :
         IF ok
         THEN /\ connOpen' = TRUE
              /\ acquired' = acquired + 1
              /\ opened' = opened + 1
              /\ connOwner' = Append(connOwner, calls)
              /\ session' = session + 1
              /\ readOnly' = FALSE
              /\ pc' = "ping"
              /\ outcome' = outcome
         ELSE /\ pc' = "done"
              /\ outcome' = "ConnectionFailure"
              /\ UNCHANGED <<connOpen, acquired, opened, connOwner, session, readOnly>>
    /\ UNCHANGED <<sql, kwOrder, decision, firstDecision, closed, sent, pending, calls,
                   dbError>>
    /\ UNCHANGED <<validations, expired, cfgVars, hookVars, memVars>>

\* run_sql: conn.ping(reconnect=True); a dead connection is re-established
\* as a new server session, or the ping raises.
Ping ==
    /\ pc = "ping"
    /\ \E r \in {"alive", "reconnected", "failed"} :
         /\ session' = IF r = "reconnected" THEN session + 1 ELSE session
         /\ readOnly' = IF r = "reconnected" THEN FALSE ELSE readOnly
         /\ pc' = IF r = "failed" THEN "finally" ELSE "set_read_only"
         /\ pending' = IF r = "failed" THEN "PingError" ELSE pending
         /\ dbError' = IF r = "failed" THEN "PingError" ELSE dbError
    /\ UNCHANGED <<sql, kwOrder, decision, firstDecision, connOpen, acquired,
                   opened, closed, sent, outcome, calls, connOwner>>
    /\ UNCHANGED <<validations, expired, cfgVars, hookVars, memVars>>

\* Mutant: a failure of the directive is swallowed and the call goes on.
SetReadOnly_swallows_failure ==
    /\ pc = "set_read_only"
    /\ \E ok \in BOOLEAN :
         /\ sent' = Append(sent, Directive(ok))
         /\ readOnly' = ok
    /\ pc' = "execute"
    /\ UNCHANGED <<sql, kwOrder, decision, firstDecision, connOpen, acquired,
                   opened, closed, session, pending, outcome, calls, dbError, connOwner>>
    /\ UNCHANGED <<validations, expired, cfgVars, hookVars, memVars>>

\* run_sql: cursor.execute("SET SESSION TRANSACTION READ ONLY")
SetReadOnly ==
    /\ pc = "set_read_only"
    /\ \E ok \in BOOLEAN :
         /\ sent' = Append(sent, Directive(ok))
         /\ readOnly' = ok
         /\ pc' = IF ok THEN "execute" ELSE "finally"
         /\ pending' = IF ok THEN pending ELSE "DirectiveError"
         /\ dbError' = IF ok THEN dbError ELSE "DirectiveError"
    /\ UNCHANGED <<sql, kwOrder, decision, firstDecision, connOpen, acquired,
                   opened, closed, session, outcome, calls, connOwner>>
    /\ UNCHANGED <<validations, expired, cfgVars, hookVars, memVars>>

\* Mutant: a write refused by the read-only session is raised as a plain
\* statement error.
Execute_hides_violation ==
    /\ pc = "execute"
    /\ \E r \in {"ok", "StatementError", "ReadOnlyViolation"} :
         /\ sent' = Append(sent, UserStatement(r = "ok"))
         /\ pc' = IF r = "ok" THEN "fetch" ELSE "finally"
         /\ pending' = IF r = "ok" THEN pending ELSE "StatementError"
         /\ dbError' = IF r = "ok" THEN dbError ELSE r
    /\ UNCHANGED <<sql, kwOrder, decision, firstDecision, connOpen, acquired,
                   opened, closed, session, readOnly, outcome, calls, connOwner>>
    /\ UNCHANGED <<validations, expired, cfgVars, hookVars, memVars>>

\* Mutant: a statement the database refused is submitted once more before the
\* error goes out.
Execute_retries_failure ==
    /\ pc = "execute"
    /\ \E r \in {"ok", "StatementError", "ReadOnlyViolation"} :
         /\ sent' = Append(sent, UserStatement(r = "ok"))
         /\ pc' = IF r = "ok" THEN "fetch"
                  ELSE IF dbError = "none" THEN "execute" ELSE "finally"
         /\ pending' = IF r = "ok" THEN "none" ELSE r
         /\ dbError' = IF r = "ok" THEN "none" ELSE r
    /\ UNCHANGED <<sql, kwOrder, decision, firstDecision, connOpen, acquired,
                   opened, closed, session, readOnly, outcome, calls, connOwner>>
    /\ UNCHANGED <<validations, expired, cfgVars, hookVars, memVars>>

\* run_sql: cursor.execute(args.sql); the database runs it, reports an error
\* (pymysql raises it with the server's error code), or refuses it as a write
\* in the read-only session (error 1792).
Execute ==
    /\ pc = "execute"
    /\ \E r \in {"ok", "StatementError", "ReadOnlyViolation"} :
         /\ sent' = Append(sent, UserStatement(r = "ok"))
         /\ pc' = IF r = "ok" THEN "fetch" ELSE "finally"
         /\ pending' = IF r = "ok" THEN pending ELSE r
         /\ dbError' = IF r = "ok" THEN dbError ELSE r
    /\ UNCHANGED <<sql, kwOrder, decision, firstDecision, connOpen, acquired,
                   opened, closed, session, readOnly, outcome, calls, connOwner>>
    /\ UNCHANGED <<validations, expired, cfgVars, hookVars, memVars>>

\* run_sql: results = cursor.fetchall()
Fetch ==
    /\ pc = "fetch"
    /\ \E ok \in BOOLEAN :
         /\ pc' = IF ok THEN "build" ELSE "finally"
         /\ pending' = IF ok THEN pending ELSE "FetchError"
         /\ dbError' = IF ok THEN dbError ELSE "FetchError"
    /\ UNCHANGED <<sql, kwOrder, decision, firstDecision, connOpen, acquired,
                   opened, closed, session, readOnly, sent, outcome, calls, connOwner>>
    /\ UNCHANGED <<validations, expired, cfgVars, hookVars, memVars>>

\* run_sql: df = pd.DataFrame(results, columns=...); cursor.close(); return df
BuildResult ==
    /\ pc = "build"
    /\ \E r \in {"DataFrame", "BuildError", "CursorCloseError"} :
         pending' = r
    /\ pc' = "finally"
    /\ UNCHANGED <<sql, kwOrder, decision, firstDecision, connOpen, acquired,
                   opened, closed, session, readOnly, sent, outcome, calls, dbError,
                   connOwner>>
    /\ UNCHANGED <<validations, expired, cfgVars, hookVars, memVars>>

\* Mutant: the connection is closed on the success path only.
Finally_closes_on_success_only ==
    /\ pc = "finally"
    /\ connOpen' = (pending # "DataFrame")
    /\ closed' = IF pending = "DataFrame" THEN closed + 1 ELSE closed
    /\ outcome' = pending
    /\ pc' = "done"
    /\ UNCHANGED <<sql, kwOrder, decision, firstDecision, acquired, opened,
                   session, readOnly, sent, pending, calls, dbError, connOwner>>
    /\ UNCHANGED <<validations, expired, cfgVars, hookVars, memVars>>

\* Mutant: closing after a failure raises, and the new error goes out.
Finally_close_masks_error ==
    /\ pc = "finally"
    /\ connOpen' = FALSE
    /\ closed' = closed + 1
    /\ outcome' = IF pending = "DataFrame" THEN pending ELSE "CloseError"
    /\ pc' = "done"
    /\ UNCHANGED <<sql, kwOrder, decision, firstDecision, acquired, opened,
                   session, readOnly, sent, pending, calls, dbError, connOwner>>
    /\ UNCHANGED <<validations, expired, cfgVars, hookVars, memVars>>

\* run_sql: finally: conn.close(); then the result or the error goes out.
\* Connection.close() of pymysql sends the quit message, ignores a failure of
\* that write and raises only for a connection closed before, which run_sql
\* never does: the close itself does not raise here.
Finally ==
    /\ pc = "finally"
    /\ connOpen' = FALSE
    /\ closed' = closed + 1
    /\ outcome' = pending
    /\ pc' = "done"
    /\ UNCHANGED <<sql, kwOrder, decision, firstDecision, acquired, opened,
                   session, readOnly, sent, pending, calls, dbError, connOwner>>
    /\ UNCHANGED <<validations, expired, cfgVars, hookVars, memVars>>

run_sql == Validate \/ Connect \/ Ping \/ SetReadOnly \/ Execute \/ Fetch
           \/ BuildResult \/ Finally

\* The next run_sql call for the same string starts: a further call of the
\* caller, or the next of the coroutines scheduled together on the event loop.
\* run_sql contains no await, so the loop gives control to another coroutine
\* only when the running call has returned or raised.
Again ==
    /\ pc = "done"
    /\ calls < MaxCalls
    /\ calls' = calls + 1
    /\ pc' = "validate"
    /\ decision' = NoDecision
    /\ acquired' = 0
    /\ sent' = <<>>
    /\ pending' = "none"
    /\ outcome' = "none"
    /\ dbError' = "none"
    /\ session' = 0
    /\ readOnly' = FALSE
    /\ UNCHANGED <<sql, kwOrder, firstDecision, connOpen, opened, closed, connOwner>>
    /\ validations' = 0
    /\ expired' = "none"
    /\ UNCHANGED <<cfgVars, hookVars, memVars>>

\* The interpreter is started anew: the module-level frozenset is rebuilt
\* under a new hash seed.
Restart ==
    /\ pc = "done"
    /\ calls < MaxCalls
    /\ kwOrder' \in IterationOrders \ {kwOrder}
    /\ UNCHANGED <<sql, pc, decision, firstDecision, connOpen, acquired, opened,
                   closed, session, readOnly, sent, pending, outcome, calls, dbError,
                   connOwner>>
    /\ UNCHANGED <<validations, expired, cfgVars, hookVars, memVars>>

Next == run_sql \/ Again \/ Restart

Spec == Init /\ [][Next]_vars

\* ---------------------------------------------------- QueryLoggingHook
HookClasses == {"QueryLoggingHook", "DatabaseQueryLogger"}

\* The hooks that can be constructed: log_all_tools and
\* include_result_preview are keyword arguments of both classes.  A
\* DatabaseQueryLogger is the class itself, whose _write_to_database raises
\* NotImplementedError, or a subclass that overrides the method as the
\* docstring describes.
Loggers ==
    {l \in [class : HookClasses, log_all_tools : BOOLEAN, include_result_preview : BOOLEAN,
            overrides_write : BOOLEAN] :
        l.overrides_write => l.class = "DatabaseQueryLogger"}

\* result.error: None, the empty string, or a message.
ErrorTexts == {"None", "", "Statement type 'USE' is not allowed"}

\* The values of context.metadata: empty, with a question and both counters,
\* with an empty question, with one counter only, with another key only.
Metadatas ==
    {NoMetadata,
     [question |-> "q", conversation_turn |-> TRUE, retry_count |-> TRUE, other |-> FALSE],
     [question |-> "", conversation_turn |-> TRUE, retry_count |-> TRUE, other |-> FALSE],
     [question |-> "absent", conversation_turn |-> TRUE, retry_count |-> FALSE,
      other |-> FALSE],
     [question |-> "absent", conversation_turn |-> FALSE, retry_count |-> FALSE,
      other |-> TRUE]}

\* What the agent hands to post_tool_execution: the name of the tool, whether
\* tool_call.arguments (a Dict[str, Any]) is non-empty and whether json.dumps
\* can serialise it (it cannot with a set or a datetime among the values),
\* result.success, result.error, and context.metadata.  result.result_for_llm
\* is non-empty; context.user.group_memberships is a list of strings.
ToolExecutions ==
    {c \in [tool_name : {"run_sql", "visualize_data"}, success : BOOLEAN,
            error : ErrorTexts, arguments : BOOLEAN, serialisable : BOOLEAN,
            metadata : Metadatas] :
        ~c.arguments => c.serialisable}

\* json.dumps(tool_call.arguments) raises TypeError.
dumps_raises(c) == c.arguments /\ ~c.serialisable

\* if not self.log_all_tools and tool_call.name != "run_sql": return
filtered_out(l, c) == ~l.log_all_tools /\ c.tool_name # "run_sql"

\* if context.metadata: a dict with at least one key
has_metadata(m) ==
    m.question # "absent" \/ m.conversation_turn \/ m.retry_count \/ m.other

\* question = context.metadata.get("question"); if question: a non-empty value
has_question(m) == m.question \notin {"absent", ""}

BaseKeys == {"timestamp", "tool_name", "user_id", "user_email", "user_groups",
             "conversation_id", "request_id", "success"}

\* log_entry of QueryLoggingHook.post_tool_execution: its keys and the values
\* of tool_name, request_id, success and error ("absent" without the key).
log_entry(l, c, request_id) ==
    [keys |-> BaseKeys
              \cup (IF c.arguments THEN {"arguments"} ELSE {})
              \cup (IF ~c.success /\ c.error \notin {"None", ""} THEN {"error"} ELSE {})
              \cup (IF l.include_result_preview THEN {"result_preview"} ELSE {})
              \cup (IF has_metadata(c.metadata) /\ has_question(c.metadata)
                    THEN {"question"} ELSE {})
              \cup (IF has_metadata(c.metadata) /\ c.metadata.conversation_turn
                    THEN {"conversation_turn"} ELSE {})
              \cup (IF has_metadata(c.metadata) /\ c.metadata.retry_count
                    THEN {"retry_count"} ELSE {}),
     tool_name |-> c.tool_name,
     request_id |-> request_id,
     success |-> c.success,
     error |-> IF ~c.success /\ c.error \notin {"None", ""} THEN c.error ELSE "absent"]

\* log_entry of DatabaseQueryLogger.post_tool_execution.
db_log_entry(l, c, request_id) ==
    [keys |-> BaseKeys \cup {"arguments", "error"}
              \cup (IF c.tool_name = "run_sql" /\ c.arguments THEN {"sql"} ELSE {})
              \cup (IF has_metadata(c.metadata) THEN {"question"} ELSE {}),
     tool_name |-> c.tool_name,
     request_id |-> request_id,
     success |-> c.success,
     error |-> IF ~c.success THEN c.error ELSE "None"]

\* A hook has been constructed and registered; no tool has run yet.
InitHook ==
    /\ logger \in Loggers
    /\ call = NoCall
    /\ hookPc = "idle"
    /\ log = <<>>
    /\ attempts = 0
    /\ toolResult = NoResult
    /\ executions = 0
    /\ writing = <<>>
    /\ allowed_statements = None
    /\ self_allowed = init_allowed(None)
    /\ sql = <<>>
    /\ kwOrder = <<"DELETE", "DROP">> \o OtherKeywords
    /\ pc = "idle"
    /\ decision = NoDecision
    /\ firstDecision = NoDecision
    /\ connOpen = FALSE
    /\ acquired = 0
    /\ opened = 0
    /\ closed = 0
    /\ session = 0
    /\ readOnly = FALSE
    /\ sent = <<>>
    /\ pending = "none"
    /\ outcome = "none"
    /\ calls = 0
    /\ dbError = "none"
    /\ connOwner = <<>>
    /\ validations = 0
    /\ expired = "none"
    /\ NoEnhancement

\* The agent has executed a tool and calls post_tool_execution(tool_call,
\* result, context) of the registered hook: after the call before has
\* returned or raised, or as a further task while that call awaits its write.
ToolExecuted ==
    /\ hookPc \in {"idle", "returned", "writing", "raised"}
    /\ executions < MaxExecutions
    /\ executions' = executions + 1
    /\ call' \in ToolExecutions
    /\ toolResult' = [success |-> call'.success, error |-> call'.error]
    /\ hookPc' = "called"
    /\ UNCHANGED <<logger, log, attempts, writing>>
    /\ UNCHANGED <<runVars, cfgVars, memVars>>

\* Mutant: a failure of the write goes out of the hook.
post_tool_execution_raises ==
    /\ hookPc = "called"
    /\ logger.class = "QueryLoggingHook"
    /\ IF filtered_out(logger, call)
       THEN hookPc' = "returned" /\ UNCHANGED <<log, attempts>>
       ELSE \E ok \in BOOLEAN :
              /\ dumps_raises(call) => ~ok
              /\ attempts' = attempts + 1
              /\ log' = IF ok THEN Append(log, log_entry(logger, call, executions)) ELSE log
              /\ hookPc' = IF ok THEN "returned" ELSE "raised"
    /\ UNCHANGED <<logger, call, toolResult, executions, writing>>
    /\ UNCHANGED <<runVars, cfgVars, memVars>>

\* QueryLoggingHook.post_tool_execution: a tool other than run_sql is passed
\* over unless log_all_tools; the entry is appended to the log file as one
\* JSON line (a blocking write, the method has no await); an exception of the
\* write, that of json.dumps(log_entry) for arguments it cannot serialise
\* included, is caught and reported to the module's logger.  The hook returns
\* None and leaves the result as it is.
post_tool_execution ==
    /\ hookPc = "called"
    /\ logger.class = "QueryLoggingHook"
    /\ IF filtered_out(logger, call)
       THEN UNCHANGED <<log, attempts>>
       ELSE \E ok \in BOOLEAN :
              /\ dumps_raises(call) => ~ok
              /\ attempts' = attempts + 1
              /\ log' = IF ok THEN Append(log, log_entry(logger, call, executions)) ELSE log
    /\ hookPc' = "returned"
    /\ UNCHANGED <<logger, call, toolResult, executions, writing>>
    /\ UNCHANGED <<runVars, cfgVars, memVars>>

\* DatabaseQueryLogger.post_tool_execution up to "await
\* self._write_to_database(log_entry)": the same filter, then the entry is
\* built, with json.dumps(tool_call.arguments) outside any try: its TypeError
\* leaves the hook, nothing is reported and no write is started.  Else the
\* entry is handed to the write.  The method of the class itself raises
\* NotImplementedError at once, which is caught and reported: the hook returns
\* with nothing written.  An overriding method is awaited: the hook is
\* suspended until the write is done.
DatabaseQueryLogger_post_tool_execution ==
    /\ hookPc = "called"
    /\ logger.class = "DatabaseQueryLogger"
    /\ IF filtered_out(logger, call)
       THEN hookPc' = "returned" /\ UNCHANGED <<attempts, writing>>
       ELSE IF dumps_raises(call)
       THEN hookPc' = "raised" /\ UNCHANGED <<attempts, writing>>
       ELSE /\ attempts' = attempts + 1
            /\ IF logger.overrides_write
               THEN /\ writing' = Append(writing, db_log_entry(logger, call, executions))
                    /\ hookPc' = "writing"
               ELSE hookPc' = "returned" /\ UNCHANGED writing
    /\ UNCHANGED <<logger, call, toolResult, executions, log>>
    /\ UNCHANGED <<runVars, cfgVars, memVars>>

\* The sequence without its i-th element.
Without(seq, i) == SubSeq(seq, 1, i - 1) \o SubSeq(seq, i + 1, Len(seq))

\* An awaited _write_to_database of a subclass is done: the row is written,
\* or the write raises and the exception is caught and reported; the call it
\* belongs to returns.
_write_to_database ==
    \E i \in 1..Len(writing), ok \in BOOLEAN :
        /\ log' = IF ok THEN Append(log, writing[i]) ELSE log
        /\ writing' = Without(writing, i)
        /\ hookPc' = IF writing[i].request_id = executions THEN "returned" ELSE hookPc
        /\ UNCHANGED <<logger, call, toolResult, executions, attempts>>
        /\ UNCHANGED <<runVars, cfgVars, memVars>>

NextHook ==
    \/ ToolExecuted
    \/ post_tool_execution
    \/ DatabaseQueryLogger_post_tool_execution
    \/ _write_to_database

SpecHook == InitHook /\ [][NextHook]_vars

\* ------------------------------------------------- deadlines of the caller
\* No logging hook is registered.
NoHook ==
    /\ logger = NoLogger
    /\ call = NoCall
    /\ hookPc = "idle"
    /\ log = <<>>
    /\ attempts = 0
    /\ toolResult = NoResult
    /\ executions = 0
    /\ writing = <<>>

\* run_sql(args) has been called for the first time on a new runner.
FirstCall ==
    /\ pc = "validate"
    /\ decision = NoDecision
    /\ firstDecision = NoDecision
    /\ connOpen = FALSE
    /\ acquired = 0
    /\ opened = 0
    /\ closed = 0
    /\ session = 0
    /\ readOnly = FALSE
    /\ sent = <<>>
    /\ pending = "none"
    /\ outcome = "none"
    /\ calls = 1
    /\ dbError = "none"
    /\ connOwner = <<>>
    /\ validations = 0
    /\ expired = "none"

\* The strings of the calls that are run under a deadline.
DeadlineInputs == {<<"SELECT">>, Spaced(<<"SELECT", "created_at">>), <<"DeLeTe">>}

\* The caller runs run_sql under a deadline (asyncio.wait_for, or a task it
\* cancels).
InitDeadline ==
    /\ allowed_statements = None
    /\ self_allowed = init_allowed(None)
    /\ sql \in DeadlineInputs
    /\ kwOrder \in IterationOrders
    /\ FirstCall
    /\ NoHook
    /\ NoEnhancement

\* The deadline passes, or the caller cancels, while pymysql.connect,
\* cursor.execute or cursor.fetchall is in flight.  asyncio delivers a
\* cancellation as CancelledError at the next await of the coroutine; run_sql
\* has no await, takes no timeout and sets none on the connection, so nothing
\* reaches the call: its state is as before and the blocking call goes on.
DeadlineExpires ==
    /\ expired = "none"
    /\ pc \in {"connect", "execute", "fetch"}
    /\ expired' = pc
    /\ UNCHANGED <<sql, kwOrder, pc, decision, firstDecision, connOpen, acquired, opened,
                   closed, session, readOnly, sent, pending, outcome, calls, dbError,
                   connOwner, validations>>
    /\ UNCHANGED <<cfgVars, hookVars, memVars>>

NextDeadline == run_sql \/ Again \/ Restart \/ DeadlineExpires

SpecDeadline == InitDeadline /\ [][NextDeadline]_vars

\* ------------------------------------------------ validate_sql by itself
\* The sequences of up to n items of Items.
ItemSeqs(n) == UNION {[1..k -> Items] : k \in 0..n}

\* WITH, the definition of a common table expression, the verb of the
\* statement and what follows it.
CteInputs ==
    {Spaced(<<"WITH", CteHeader, verb>> \o rest) :
        verb \in {"SELECT", "INSERT", "DeLeTe"}, rest \in ItemSeqs(MaxLen - 2)}

\* A metadata verb or SET, and what follows it.
VerbInputs ==
    {Spaced(<<verb>> \o rest) :
        verb \in {"Explain", "desc", "DESCRIBE", "SET"}, rest \in ItemSeqs(MaxLen - 2)}

ValidateInputs == Inputs \cup CteInputs \cup VerbInputs

\* validate_sql(sql) is called on a runner, as the guardrail test of
\* test_mysql_connection.py does.
InitValidate ==
    /\ allowed_statements \in CtorArgs
    /\ self_allowed = init_allowed(allowed_statements)
    /\ sql \in IF allowed_statements = None THEN ValidateInputs
               ELSE ConfiguredInputs \cup VerbInputs
    /\ kwOrder \in IterationOrders
    /\ FirstCall
    /\ NoHook
    /\ NoEnhancement

\* validate_sql returns None for an approved query and raises
\* ReadOnlyViolationError for a rejected one.
validate_sql_returns ==
    /\ pc = "validate"
    /\ decision' = validate_sql(sql, _allowed, kwOrder)
    /\ firstDecision' = decision'
    /\ validations' = validations + 1
    /\ pc' = IF decision'.status = "Rejected" THEN "raised" ELSE "returned"
    /\ outcome' = IF decision'.status = "Rejected" THEN "ReadOnlyViolationError" ELSE "None"
    /\ UNCHANGED <<sql, kwOrder, connOpen, acquired, opened, closed, session,
                   readOnly, sent, pending, calls, dbError, connOwner, expired>>
    /\ UNCHANGED <<cfgVars, hookVars, memVars>>

NextValidate == validate_sql_returns

SpecValidate == InitValidate /\ [][NextValidate]_vars

\* ----------------------------------------------------- memory enhancers
\* Similarity scores and thresholds are Python floats.  A float is written as
\* 16 * n + e: n is the number of fortieths it is nearest to (0.625 is 25
\* fortieths, 0.7 is 28) and e, between -7 and 7, is the number of floats by
\* which it lies above (below, when negative) the float nearest to n / 40.
\* So 0.625 is 400, 0.7 is 448 and 0.49999999999999994 is 319, and the order
\* of the integers is the order of the floats.
Eighths(k) == 80 * k
Tenths(k) == 64 * k

\* a - b in float arithmetic, on the thresholds the configurations of
\* Enhancers reach: exact on the eighths, rounded on the tenths as the
\* interpreter rounds (0.7 - 0.2 is 0.49999999999999994, 0.8 - 0.1 is
\* 0.7000000000000001, 0.4 - 0.1 is 0.30000000000000004).
float_sub(a, b) ==
    a - b + CASE a = 448 /\ b = 128 -> -1
              [] a = 512 /\ b = 64 -> 1
              [] a = 321 /\ b = 64 -> 1
              [] a = 258 /\ b = 64 -> 1
              [] a = 256 /\ b = 64 -> 1
              [] a = 195 /\ b = 64 -> 2
              [] OTHER -> 0

EighthScores == {Eighths(2), Eighths(3), Eighths(4), Eighths(6)}
TenthScores == {Tenths(3), Tenths(6)}
ScoreValues == EighthScores \cup TenthScores

\* memory.args of a saved run_sql usage: a dict with the SQL string, a dict
\* whose "sql" is None, or None.
ArgsValues == {"sql", "sql_none", "None"}

\* The enhancers that can be constructed.  example_format is None, a format
\* string with the documented placeholders, or one with another placeholder.
\* AdaptiveMemoryEnhancer passes initial_threshold to the base class as
\* similarity_threshold and leaves example_format at None; none of the
\* arguments is validated.
Enhancers ==
    [class : {"MemoryBasedEnhancer"}, max_examples : {1, 2},
     similarity_threshold : {Eighths(5)},
     example_format : {"None", "{question}: {sql}", "{foo}"},
     initial_threshold : {0}, min_threshold : {0}, threshold_step : {0}, min_examples : {0}]
    \cup {e \in [class : {"AdaptiveMemoryEnhancer"}, max_examples : {1, 2},
                  similarity_threshold : {Eighths(2), Eighths(5)},
                  example_format : {"None"},
                  initial_threshold : {Eighths(2), Eighths(5)},
                  min_threshold : {Eighths(3)},
                  threshold_step : {Eighths(-1), 0, Eighths(1), Eighths(3)},
                  min_examples : {1, 2}] :
              e.similarity_threshold = e.initial_threshold}
    \cup {e \in [class : {"AdaptiveMemoryEnhancer"}, max_examples : {1, 2},
                  similarity_threshold : {Tenths(7), Tenths(9)},
                  example_format : {"None"},
                  initial_threshold : {Tenths(7), Tenths(9)},
                  min_threshold : {Tenths(3), Tenths(6)},
                  threshold_step : {Tenths(1), Tenths(2)},
                  min_examples : {1, 2}] :
              e.similarity_threshold = e.initial_threshold}

\* The run_sql entries of a memory, each with its similarity to the question
\* and its args, the most similar first.
EntryLists(scores, args) ==
    {l \in UNION {[1..n -> [similarity : scores, args : args]] : n \in 0..MaxEntries} :
        \A i \in 1..(Len(l) - 1) : l[i].similarity >= l[i + 1].similarity}

\* context.agent_memory: None, or a memory whose search works or raises.
Memories(scores, args) ==
    {NoMemory} \cup [present : {TRUE}, entries : EntryLists(scores, args), fails : BOOLEAN]

Message(role, content) == [role |-> role, content |-> content]

\* conversation.messages
Conversations ==
    {<<>>,
     <<Message("user", "q")>>,
     <<Message("user", "")>>,
     <<Message("assistant", "a")>>,
     <<Message("user", "q"), Message("assistant", "a")>>,
     <<Message("user", "q"), Message("user", "")>>}

\* request.system_message: None, the empty string or a prompt.
SystemMessages ==
    {NoMessage, [none |-> FALSE, text |-> <<>>],
     [none |-> FALSE, text |-> <<"You are a SQL assistant.">>]}

\* _extract_user_question: the content of the last message of role "user"
\* with a non-empty content; "None" when there is none.
RECURSIVE _extract_user_question(_)
_extract_user_question(messages) ==
    IF messages = <<>> THEN "None"
    ELSE LET message == messages[Len(messages)]
         IN  IF message.role = "user" /\ message.content # ""
             THEN message.content
             ELSE _extract_user_question(SubSeq(messages, 1, Len(messages) - 1))

\* agent_memory.search_similar_usage(question, context, limit,
\* similarity_threshold, tool_name_filter="run_sql"): the run_sql entries
\* whose similarity is at least the threshold, the most similar first, at
\* most limit of them.
search_similar_usage(memory, limit, similarity_threshold) ==
    LET found == SelectSeq(memory.entries,
                           LAMBDA entry : entry.similarity >= similarity_threshold)
    IN  SubSeq(found, 1, IF Len(found) < limit THEN Len(found) ELSE limit)

\* _format_examples raises: result.memory.args.get(...) raises AttributeError
\* for args None under either format; the default format calls .strip() on
\* the value of "sql", an AttributeError for None; str.format raises KeyError
\* for a placeholder other than question, sql and similarity.
format_raises(example_format, similar_queries) ==
    \E i \in 1..Len(similar_queries) :
        \/ similar_queries[i].args = "None"
        \/ example_format = "None" /\ similar_queries[i].args = "sql_none"
        \/ example_format = "{foo}"

\* _format_examples: one block per result, joined by blank lines; numbered
\* from 1 under the default format.
_format_examples(example_format, similar_queries) ==
    [i \in 1..Len(similar_queries) |->
        IF example_format = "None"
        THEN "Example " \o ToString(i) \o ": similarity "
                 \o ToString(similar_queries[i].similarity)
        ELSE "q: " \o similar_queries[i].args \o " "
                 \o ToString(similar_queries[i].similarity)]

\* request.system_message or ""
or_empty(message) == IF message.none THEN <<>> ELSE message.text

\* _inject_examples: system_message + injection
_inject_examples(message_text, examples_text, num_examples) ==
    message_text
        \o <<"RELEVANT PAST QUERIES (" \o ToString(num_examples) \o " example(s)):">>
        \o examples_text \o <<"======">>

\* No runner is in use.
NoRunner ==
    /\ allowed_statements = None
    /\ self_allowed = init_allowed(None)
    /\ sql = <<>>
    /\ kwOrder = <<"DELETE", "DROP">> \o OtherKeywords
    /\ pc = "idle"
    /\ decision = NoDecision
    /\ firstDecision = NoDecision
    /\ connOpen = FALSE
    /\ acquired = 0
    /\ opened = 0
    /\ closed = 0
    /\ session = 0
    /\ readOnly = FALSE
    /\ sent = <<>>
    /\ pending = "none"
    /\ outcome = "none"
    /\ calls = 0
    /\ dbError = "none"
    /\ connOwner = <<>>
    /\ validations = 0
    /\ expired = "none"

\* The memories an enhancer is checked with: those of well-formed entries with
\* every conversation and system message, those with entries of other args
\* with one conversation and one system message.
WellFormed(memory) == \A i \in 1..Len(memory.entries) : memory.entries[i].args = "sql"
Family(e) == IF e.initial_threshold \in {Tenths(7), Tenths(9)} THEN TenthScores
             ELSE EighthScores
Plain(e) == e.class = "MemoryBasedEnhancer" /\ e.example_format = "None"

\* An enhancer has been constructed and enhance_context(request,
\* conversation, context) is called on it; AdaptiveMemoryEnhancer inherits
\* the method.
InitMemory ==
    /\ enhancer \in Enhancers
    /\ agent_memory \in Memories(Family(enhancer), ArgsValues)
    /\ conversation \in IF Plain(enhancer) /\ WellFormed(agent_memory) THEN Conversations
                        ELSE IF WellFormed(agent_memory)
                        THEN {<<>>, <<Message("user", "q")>>}
                        ELSE {<<Message("user", "q")>>}
    /\ system_message \in IF Plain(enhancer) /\ WellFormed(agent_memory) THEN SystemMessages
                          ELSE IF WellFormed(agent_memory)
                          THEN {NoMessage, [none |-> FALSE,
                                            text |-> <<"You are a SQL assistant.">>]}
                          ELSE {[none |-> FALSE, text |-> <<"You are a SQL assistant.">>]}
    /\ original_message = system_message
    /\ epc = "called"
    /\ current_threshold = 0
    /\ searched = <<>>
    /\ results = <<>>
    /\ memory_written = FALSE
    /\ NoRunner
    /\ NoHook

\* enhance_context after the search: "if not similar_queries: return
\* request"; else _format_examples and _inject_examples run, outside any try,
\* so an exception of the formatting leaves enhance_context with the request
\* as it was; else the examples are appended to request.system_message as it
\* is now, and the request is returned.
inject_and_return(similar_queries) ==
    IF similar_queries = <<>>
    THEN epc' = "returned" /\ UNCHANGED system_message
    ELSE IF format_raises(enhancer.example_format, similar_queries)
    THEN epc' = "raised" /\ UNCHANGED system_message
    ELSE /\ epc' = "returned"
         /\ system_message' =
              [none |-> FALSE,
               text |-> _inject_examples(or_empty(system_message),
                                         _format_examples(enhancer.example_format,
                                                          similar_queries),
                                         Len(similar_queries))]

\* enhance_context up to the first "await ... search_similar_usage(...)":
\* the request is returned as it is without a memory or a user question.
\* Else _search_similar_queries is entered.  That of MemoryBasedEnhancer
\* issues its one search at similarity_threshold.  That of
\* AdaptiveMemoryEnhancer sets current_threshold = self.initial_threshold and
\* results = [] and issues the first search when the condition of its loop
\* holds; when it does not, it returns [] at once and the request is returned
\* as it is.
enhance_context ==
    /\ epc = "called"
    /\ IF ~agent_memory.present \/ _extract_user_question(conversation) = "None"
       THEN epc' = "returned" /\ UNCHANGED <<current_threshold, searched, results>>
       ELSE IF enhancer.class = "MemoryBasedEnhancer"
       THEN /\ current_threshold' = enhancer.similarity_threshold
            /\ searched' = <<enhancer.similarity_threshold>>
            /\ epc' = "searching"
            /\ UNCHANGED results
       ELSE /\ current_threshold' = enhancer.initial_threshold
            /\ results' = <<>>
            /\ IF enhancer.initial_threshold >= enhancer.min_threshold
               THEN searched' = <<enhancer.initial_threshold>> /\ epc' = "searching"
               ELSE searched' = <<>> /\ epc' = "returned"
    /\ UNCHANGED <<enhancer, agent_memory, conversation, system_message,
                   original_message, memory_written>>
    /\ UNCHANGED <<runVars, cfgVars, hookVars>>

\* MemoryBasedEnhancer: the awaited search is done and enhance_context runs
\* to its end.  An exception of the search is caught and logged and the
\* request is returned as it is.
search_returns ==
    /\ epc = "searching"
    /\ enhancer.class = "MemoryBasedEnhancer"
    /\ IF agent_memory.fails
       THEN epc' = "returned" /\ UNCHANGED <<results, system_message>>
       ELSE /\ results' = search_similar_usage(agent_memory, enhancer.max_examples,
                                               current_threshold)
            /\ inject_and_return(results')
    /\ UNCHANGED <<enhancer, agent_memory, conversation, original_message,
                   current_threshold, searched, memory_written>>
    /\ UNCHANGED <<runVars, cfgVars, hookVars>>

\* AdaptiveMemoryEnhancer._search_similar_queries from the end of one awaited
\* search to the next await or the return: with len(results) >=
\* self.min_examples the results are returned; else current_threshold -=
\* self.threshold_step, a float subtraction, and, while current_threshold >=
\* self.min_threshold, the next search is issued; when the condition of the
\* loop fails, the results of the last search are returned.  enhance_context
\* then runs to its end.  An exception of the search leaves the method and is
\* caught and logged by enhance_context.
adaptive_search_returns ==
    /\ epc = "searching"
    /\ enhancer.class = "AdaptiveMemoryEnhancer"
    /\ IF agent_memory.fails
       THEN /\ epc' = "returned"
            /\ UNCHANGED <<results, system_message, current_threshold, searched>>
       ELSE /\ results' = search_similar_usage(agent_memory, enhancer.max_examples,
                                               current_threshold)
            /\ IF Len(results') >= enhancer.min_examples
               THEN /\ inject_and_return(results')
                    /\ UNCHANGED <<current_threshold, searched>>
               ELSE /\ current_threshold' = float_sub(current_threshold,
                                                      enhancer.threshold_step)
                    /\ IF current_threshold' >= enhancer.min_threshold
                       THEN /\ Len(searched) < MaxSearches
                            /\ searched' = Append(searched, current_threshold')
                            /\ epc' = "searching"
                            /\ UNCHANGED system_message
                       ELSE /\ inject_and_return(results')
                            /\ UNCHANGED searched
    /\ UNCHANGED <<enhancer, agent_memory, conversation, original_message,
                   memory_written>>
    /\ UNCHANGED <<runVars, cfgVars, hookVars>>

\* The list of entries with one more entry, the most similar first.
with_entry(entries, entry) ==
    SelectSeq(entries, LAMBDA x : x.similarity >= entry.similarity) \o <<entry>>
        \o SelectSeq(entries, LAMBDA x : x.similarity < entry.similarity)

\* training/seed_agent_memory.py, seed_memory(clear_existing=True): "await
\* memory.clear_memories(context)" empties the store the agent reads.
seed_memory_clear ==
    /\ agent_memory.present
    /\ agent_memory.entries # <<>>
    /\ agent_memory' = [agent_memory EXCEPT !.entries = <<>>]
    /\ memory_written' = TRUE
    /\ UNCHANGED <<enhancer, conversation, system_message, original_message, epc,
                   current_threshold, searched, results>>
    /\ UNCHANGED <<runVars, cfgVars, hookVars>>

\* seed_memory: "await memory.save_tool_usage(question, tool_name="run_sql",
\* args={"sql": pair["sql"].strip()}, ...)" adds one run_sql entry per
\* training pair, with its SQL string, of whatever similarity to the question
\* of the request.  (save_text_memory adds no run_sql entry.)
seed_memory_save ==
    /\ agent_memory.present
    /\ Len(agent_memory.entries) < MaxEntries
    /\ \E score \in Family(enhancer) :
          agent_memory' = [agent_memory EXCEPT
                              !.entries = with_entry(@, [similarity |-> score,
                                                         args |-> "sql"])]
    /\ memory_written' = TRUE
    /\ UNCHANGED <<enhancer, conversation, system_message, original_message, epc,
                   current_threshold, searched, results>>
    /\ UNCHANGED <<runVars, cfgVars, hookVars>>

NextMemory ==
    \/ enhance_context
    \/ search_returns
    \/ adaptive_search_returns
    \/ seed_memory_clear
    \/ seed_memory_save

SpecMemory == InitMemory /\ [][NextMemory]_vars

\* ============================================================== claims
decided == decision # NoDecision

\* The tokens of a string that are neither whitespace nor comments.
Content(raw) == SelectSeq(raw, LAMBDA t : ~is_whitespace(t) /\ ~is_comment(t))

\* A deny-list token stands as a whole word outside the comments.
HasBlockedWord(raw) ==
    \E i \in 1..Len(raw) :
        ~is_comment(raw[i]) /\ Words(Upper(raw[i])) \cap _BLOCKED_KEYWORDS # {}

\* Number of non-empty fragments between the ';' of a token sequence.
FragmentCount(c) ==
    Cardinality({i \in 1..Len(c) : c[i] # ";" /\ (i = 1 \/ c[i - 1] = ";")})

\* The content cut at every ';' character, those inside literals included.
RECURSIVE CutLiterals(_)
CutLiterals(c) ==
    IF c = <<>> THEN <<>>
    ELSE (IF Head(c) = "'a;b'" THEN <<"'a", ";", "b'">> ELSE <<Head(c)>>)
         \o CutLiterals(Tail(c))

\* One statement, with at most one terminator, which then ends it.
OneStatement(raw) ==
    LET c == Content(raw)
    IN  c # <<>> /\ c[1] # ";" /\ \A i \in 1..(Len(c) - 1) : c[i] # ";"

UserSent == {i \in 1..Len(sent) : sent[i].kind = "user"}

\* C1: a query that validate_sql rejects opens no connection, sends no
\* statement and yields no result table; every user statement sent was
\* approved earlier in the same call.
C1_RejectionReachesNoConnection ==
    /\ decision.status = "Rejected" =>
          /\ acquired = 0 /\ ~connOpen /\ sent = <<>>
          /\ pending # "DataFrame" /\ outcome # "DataFrame"
    /\ UserSent # {} => decision.status = "Approved"

C1_Witness ==
    pc = "done" /\ decision.status = "Rejected" /\ outcome = "ReadOnlyViolationError"

\* C2: a string with a deny-list token as a whole word outside its comments,
\* in any letter case and at any position, is rejected.
C2_BlockedWordRejected ==
    decided /\ HasBlockedWord(sql) => decision.status = "Rejected"

C2_Witness ==
    /\ decision = Rejected(BlockedKeyword, "DROP")
    /\ \E i, j \in 1..Len(sql) : i < j /\ is_comment(sql[i]) /\ sql[j] = "'drop'"

\* C3 as stated: two or more non-empty fragments between the ';' characters
\* of the canonical form, those inside quoted literals included, give the
\* multi-statement rejection.
C3_Original ==
    decided /\ FragmentCount(CutLiterals(Content(sql))) >= 2
        => decision = Rejected(MultiStatement, "")

\* C3 amended: two or more non-empty fragments between the ';' tokens of the
\* canonical form (terminators outside quoted literals) give the
\* multi-statement rejection, whatever the fragments contain.
C3_Amended ==
    decided /\ FragmentCount(Content(sql)) >= 2
        => decision = Rejected(MultiStatement, "")

C3_Witness ==
    /\ decision = Rejected(MultiStatement, "")
    /\ Content(sql) = <<"SELECT", ";", "show">>

\* C4: a single statement whose kind is not in the allow-list is rejected as
\* a disallowed statement type, blocked keyword or not; an approved query has
\* a kind in the allow-list.
C4_DisallowedKindRejected ==
    /\ decided /\ OneStatement(sql) /\ stmt_type(Content(sql)) \notin _allowed
          => decision = Rejected(DisallowedStatementType, "")
    /\ decision = Approved => stmt_type(Content(sql)) \in _allowed

C4_Witness ==
    /\ decision = Rejected(DisallowedStatementType, "")
    /\ OneStatement(sql) /\ Content(sql)[1] = "USE" /\ ~HasBlockedWord(sql)

\* C5: the user's statement is sent only right after the read-only directive
\* has succeeded in the same session; after a failed directive it is not sent.
C5_DirectiveBeforeStatement ==
    /\ \A i \in UserSent :
          /\ i > 1
          /\ sent[i - 1].kind = "directive" /\ sent[i - 1].ok
          /\ sent[i - 1].session = sent[i].session
    /\ (\E j \in 1..Len(sent) : sent[j].kind = "directive" /\ ~sent[j].ok)
          => UserSent = {}

C5_Witness ==
    /\ \E i \in UserSent : sent[i].ok
    /\ session > opened

\* C6: when run_sql has returned or raised, every connection it acquired is
\* closed, whichever step failed.
C6_ConnectionClosedOnExit ==
    pc = "done" => ~connOpen /\ closed = opened

C6_Witness ==
    pc = "done" /\ acquired = 1 /\ outcome = "FetchError" /\ closed = opened

\* C7: the text sent to the database is the canonical query that was
\* inspected; nothing that validation removed reaches the database.
C7_SentIsCanonical ==
    \A i \in UserSent : sent[i].text = cleaned(sql)

\* C8: one statement whose head token is in the allow-list and which has no
\* deny-list token outside its comments is approved.
C8_AllowedReadApproved ==
    decided /\ OneStatement(sql) /\ Upper(Content(sql)[1]) \in _allowed
            /\ ~HasBlockedWord(sql)
        => decision = Approved

C8_Witness ==
    /\ decision = Approved
    /\ Content(sql)[1] = "show"
    /\ \E i \in 1..Len(sql) : is_comment(sql[i])

\* C9: every validation of the same string yields the same Decision,
\* reported blocked token included.
C9_SameDecision ==
    decided => decision = firstDecision

\* C10: an input without executable content (blank, comments, terminators)
\* is rejected with the empty-query reason.
C10_EmptyReason ==
    decided /\ Content(sql) = SelectSeq(Content(sql), LAMBDA t : t = ";")
        => /\ decision.status = "Rejected"
           /\ decision.reason \in {EmptyQuery, EmptyAfterComments}

\* The call holds the connection it has acquired.
HoldsConnection == pc \in {"ping", "set_read_only", "execute", "fetch", "build", "finally"}

\* C11: a call that has passed validation and connected holds exactly one
\* connection, opened by itself; no connection has two owners and no call owns
\* two connections; when a call has finished, no connection remains open.
C11_OwnConnectionPerCall ==
    /\ acquired <= 1
    /\ Len(connOwner) = opened
    /\ HoldsConnection => /\ decision = Approved /\ acquired = 1 /\ connOpen
                          /\ opened > 0 /\ connOwner[opened] = calls
    /\ \A i, j \in 1..Len(connOwner) : i # j => connOwner[i] # connOwner[j]
    /\ pc = "done" => ~connOpen /\ closed = opened

C11_Witness ==
    pc = "done" /\ calls = 2 /\ connOwner = <<1, 2>> /\ closed = 2 /\ ~connOpen

DbErrors == {"PingError", "DirectiveError", "StatementError", "ReadOnlyViolation",
             "FetchError"}

\* C12: an error the database reports during run_sql (ping, directive,
\* execute, fetch) is the error the caller receives, unchanged; nothing raised
\* on the way out, the release of the connection included, replaces it.
C12_DatabaseErrorUnchanged ==
    /\ dbError # "none" => dbError \in DbErrors /\ pending = dbError
    /\ pc = "done" /\ dbError # "none" => outcome = dbError /\ ~connOpen

C12_Witness ==
    pc = "done" /\ dbError = "DirectiveError" /\ outcome = "DirectiveError" /\ closed = opened

\* C13: when the database refuses the approved statement as a write in the
\* read-only session, the caller receives that read-only violation: not the
\* error of a validation rejection, not another statement error, and never a
\* result table.
C13_ViolationSurfaces ==
    /\ dbError = "ReadOnlyViolation" =>
          /\ decision = Approved
          /\ \E i \in UserSent : ~sent[i].ok
          /\ pending \notin {"DataFrame", "StatementError", "ReadOnlyViolationError"}
          /\ pc \in {"finally", "done"}
          /\ pc = "done" => outcome = "ReadOnlyViolation"
    /\ outcome = "ReadOnlyViolationError" => decision.status = "Rejected"
    /\ outcome = "StatementError" => dbError = "StatementError"

C13_Witness ==
    /\ pc = "done" /\ dbError = "ReadOnlyViolation" /\ outcome = "ReadOnlyViolation"
    /\ readOnly /\ \E i \in UserSent : ~sent[i].ok

\* C14: a constructor call with an empty allow-list yields no runner: no
\* run_sql call is ever served by one, neither with an allow-list that
\* rejects everything nor with another allow-list.
C14_EmptyAllowListRefused ==
    allowed_statements = List(<<>>) => pc = "config_error"

\* C15: the deny-list and the allow-list of a runner share no token,
\* whatever allowed_statements the runner was constructed with.
C15_ListsDisjoint ==
    _allowed \cap _BLOCKED_KEYWORDS = {}

\* The deny-list tokens a token contains as a substring, in any letter case.
BlockedSubstrings(t) ==
    CASE t = "DeLeTe"     -> {"DELETE"}
      [] t = "created_at" -> {"CREATE"}
      [] t = "'drop'"     -> {"DROP"}
      [] t = "/* DROP */" -> {"DROP"}
      [] OTHER            -> {}

\* The string is related to the deny-list by proper substrings only: outside
\* the comments no token is a deny-list token, and some token contains one.
ProperSubstringOnly(raw) ==
    /\ \A i \in 1..Len(raw) : ~is_comment(raw[i]) => Upper(raw[i]) \notin _BLOCKED_KEYWORDS
    /\ \E i \in 1..Len(raw) : ~is_comment(raw[i]) /\ BlockedSubstrings(raw[i]) # {}

RejectedByScan == decision.status = "Rejected" /\ decision.reason = BlockedKeyword

\* C16 as stated: a single allowed statement whose only relation to the
\* deny-list is an identifier or literal that contains a deny-list token as a
\* proper substring is not rejected by the deny-list scan.
C16_Original ==
    decided /\ OneStatement(sql) /\ Upper(Content(sql)[1]) \in _allowed
            /\ ProperSubstringOnly(sql)
        => ~RejectedByScan

\* The deny-list tokens a token contains inside a longer run of letters,
\* digits and underscores.
InsideLongerWord(t) == IF t = "created_at" THEN {"CREATE"} ELSE {}

\* C16 amended: the scan matches whole words only, a word being a maximal
\* run of letters, digits and underscores: a single allowed statement that
\* contains deny-list tokens only inside longer words is approved, and is in
\* particular not rejected by the scan (stated from the verdict: a string
\* that is not approved is not such a statement).
C16_Amended ==
    decided /\ decision # Approved =>
        ~(/\ OneStatement(sql) /\ Upper(Content(sql)[1]) \in _allowed
          /\ \A i \in 1..Len(sql) :
                ~is_comment(sql[i]) => BlockedSubstrings(sql[i]) = InsideLongerWord(sql[i]))

C16_Witness ==
    /\ decision = Approved
    /\ \E i \in 1..Len(sql) : sql[i] = "created_at"
    /\ Upper(Content(sql)[1]) = "SELECT"

\* C17: whatever calls have run, the allow-list of the runner is the set
\* fixed by its constructor and the deny-list is the module's set; a
\* validation has changed nothing the next one reads, so the verdict on a
\* string and its reason are those of its first validation (the reported
\* token follows the iteration order of the interpreter, the subject of C9).
C17_PolicyFixed ==
    /\ self_allowed = init_allowed(allowed_statements)
    /\ kwOrder \in IterationOrders
    /\ decided => /\ decision.status = firstDecision.status
                  /\ decision.reason = firstDecision.reason

C17_Witness ==
    /\ calls = 2 /\ pc = "done"
    /\ allowed_statements = List(<<"show", "USE">>)
    /\ decision = Approved /\ outcome = "DataFrame"

\* The events of the log that belong to the current tool execution.
EventsOfExecution == {i \in 1..Len(log) : log[i].request_id = executions}

\* C18: a failure of the write of the audit record (the append to the log
\* file, or _write_to_database) does not leave the hook: the hook returns
\* normally and the tool result is as it was handed over.  The hook raises
\* only where no write was started: when DatabaseQueryLogger cannot serialise
\* the arguments while it builds the record.
C18_WriteFailureContained ==
    /\ hookPc = "raised" =>
          /\ logger.class = "DatabaseQueryLogger"
          /\ dumps_raises(call)
          /\ \A i \in 1..Len(writing) : writing[i].request_id # executions
          /\ EventsOfExecution = {}
    /\ hookPc \in {"called", "writing", "returned", "raised"} =>
          toolResult = [success |-> call.success, error |-> call.error]
    /\ attempts >= Len(log)

C18_Witness ==
    /\ hookPc = "returned" /\ logger.class = "QueryLoggingHook"
    /\ attempts = 1 /\ log = <<>>
    /\ toolResult = [success |-> call.success, error |-> call.error]

\* The keys under which an event could carry the classification of the
\* statement.
ClassificationKeys == {"statement_type", "classification", "decision", "kind"}

\* C19: when QueryLoggingHook has handled a run_sql execution, the log holds
\* exactly one event of it, with a timestamp, the classification of the
\* statement, the success flag and, for a failed attempt, the rejection or
\* error kind; without log_all_tools no other tool leaves an event.
C19_OneEventPerExecution ==
    hookPc = "returned" /\ logger.class = "QueryLoggingHook" =>
        /\ call.tool_name = "run_sql" =>
              /\ Cardinality(EventsOfExecution) = 1
              /\ \A i \in EventsOfExecution :
                    /\ {"timestamp", "success"} \subseteq log[i].keys
                    /\ log[i].keys \cap ClassificationKeys # {}
                    /\ log[i].success = call.success
                    /\ ~call.success => "error" \in log[i].keys
        /\ call.tool_name # "run_sql" /\ ~logger.log_all_tools => EventsOfExecution = {}

\* C20: while a run_sql call waits for the database (for the connection, the
\* execution or the rows), the event loop can start the next run_sql call.
C20_CallsOverlap ==
    pc \in {"connect", "execute", "fetch"} /\ calls < MaxCalls => ENABLED Again

\* What a run_sql call raises when it fails.
Failures == {"ReadOnlyViolationError", "ConnectionFailure"} \cup DbErrors
                \cup {"BuildError", "CursorCloseError"}

\* C21: a run_sql call validates its query once and sends the user's statement
\* at most once, with the text it was given; a rejection or a connection
\* failure ends the call before anything is sent, and after a statement error
\* nothing more is sent: the failed statement is the last one and the call
\* only closes the connection and raises that error.
C21_ValidatedOnceSentAtMostOnce ==
    /\ validations = (IF pc \in {"validate", "idle"} THEN 0 ELSE 1)
    /\ Cardinality(UserSent) <= 1
    /\ \A i \in UserSent : sent[i].text = sql
    /\ outcome \in {"ReadOnlyViolationError", "ConnectionFailure"} => sent = <<>>
    /\ pending \in Failures => pc \in {"finally", "done"}
    /\ outcome \in Failures => pc = "done"
    /\ pending \in {"StatementError", "ReadOnlyViolation"} =>
          /\ sent # <<>>
          /\ sent[Len(sent)].kind = "user"
          /\ ~sent[Len(sent)].ok

C21_Witness ==
    /\ pc = "done"
    /\ outcome = "StatementError"
    /\ validations = 1
    /\ Cardinality(UserSent) = 1
    /\ decision = Approved

\* C22: when the caller's deadline has expired or the caller has cancelled
\* during a database call (connect, execute, fetch), that call is aborted: the
\* run_sql call makes no further step towards a result, it only releases the
\* connection, and when it has ended the connection is closed and no result
\* table was returned.
C22_DeadlineAbortsCall ==
    expired # "none" =>
        /\ pc \in {expired, "finally", "done"}
        /\ pending # "DataFrame"
        /\ pc = "done" => ~connOpen /\ outcome # "DataFrame"

\* The upper-cased first token of the content of a string.
HeadWord(raw) == Upper(Content(raw)[1])

\* C23: validate_sql reports the first check that fails, in the order empty,
\* multi-statement, allow-list, deny-list: a string without content is
\* reported as empty even with a blocked word in a comment; a string of two or
\* more statements with a blocked word is reported as multi-statement; one
\* statement whose head is outside the allow-list and on the deny-list (SET,
\* DELETE) is reported as a disallowed statement type; and a blocked keyword
\* is reported only for one statement with an allowed head.
C23_FirstFailingCheck ==
    decided =>
        /\ Content(sql) = <<>> => decision.reason \in {EmptyQuery, EmptyAfterComments}
        /\ FragmentCount(Content(sql)) >= 2 /\ HasBlockedWord(sql)
              => decision.reason = MultiStatement
        /\ (OneStatement(sql) /\ HeadWord(sql) \notin _allowed
                               /\ HeadWord(sql) \in _BLOCKED_KEYWORDS)
              => decision.reason = DisallowedStatementType
        /\ decision.reason = BlockedKeyword
              => (FragmentCount(Content(sql)) = 1
                  /\ (HeadWord(sql) \in _allowed \/ HeadWord(sql) = "WITH"))

C23_Witness ==
    /\ pc = "raised"
    /\ Content(sql) = <<"SET", "created_at">>
    /\ decision = Rejected(DisallowedStatementType, "")

\* The string starts with WITH and the definition of a common table
\* expression, followed by a verb.
HasCteHeader(raw) ==
    LET c == Content(raw)
    IN  Len(c) >= 3 /\ c[1] = "WITH" /\ c[2] = CteHeader

VerbAfterHeader(raw) == Upper(Content(raw)[3])

\* C24: a statement that starts with the header of a common table expression
\* is classified by the verb after the header: with SELECT, as one statement
\* without a blocked word, it is approved under an allow-list with SELECT;
\* with INSERT or DELETE it is rejected; and it is rejected as a disallowed
\* statement type only when that verb is outside the allow-list.
C24_CteClassifiedByVerb ==
    decided /\ HasCteHeader(sql) =>
        /\ (VerbAfterHeader(sql) = "SELECT" /\ "SELECT" \in _allowed
               /\ OneStatement(sql) /\ ~HasBlockedWord(sql))
              => decision = Approved
        /\ VerbAfterHeader(sql) \in {"INSERT", "UPDATE", "DELETE"}
              => decision.status = "Rejected"
        /\ decision.reason = DisallowedStatementType
              => VerbAfterHeader(sql) \notin _allowed

C24_Witness ==
    /\ pc = "returned"
    /\ Content(sql) = <<"WITH", CteHeader, "SELECT", "created_at">>
    /\ decision = Approved

\* The content without its terminators.
WithoutTerminators(raw) == SelectSeq(Content(raw), LAMBDA t : t # ";")

\* The content is one statement followed by one or more terminators.
OneStatementAndTerminators(raw) ==
    LET c == Content(raw)
    IN  \E k \in 1..(Len(c) - 1) :
            /\ \A i \in 1..k : c[i] # ";"
            /\ \A i \in (k + 1)..Len(c) : c[i] = ";"

\* The status, the reason and the reported keyword of two decisions agree;
\* the two messages for an empty query are one reason.
SameDecision(d, e) ==
    /\ d.status = e.status
    /\ d.token = e.token
    /\ \/ d.reason = e.reason
       \/ {d.reason, e.reason} \subseteq {EmptyQuery, EmptyAfterComments}

\* C25: a string made of one statement and any number of trailing or repeated
\* terminators gets the decision of that statement alone and is not rejected
\* as multi-statement.
C25_TerminatorsIgnored ==
    decided /\ OneStatementAndTerminators(sql) =>
        /\ decision.reason # MultiStatement
        /\ SameDecision(decision,
                        validate_sql(Spaced(WithoutTerminators(sql)), _allowed, kwOrder))

\* C26: the decision for a string is the decision for its canonical form
\* (comments removed, whitespace collapsed and trimmed), and it is the
\* decision for the same tokens without the comments and with one blank
\* between them: comments and whitespace between tokens do not change it.
C26_NormalizationKeepsDecision ==
    decided =>
        /\ SameDecision(decision, validate_sql(cleaned(sql), _allowed, kwOrder))
        /\ SameDecision(decision, validate_sql(Spaced(Content(sql)), _allowed, kwOrder))

C26_Witness ==
    /\ pc = "returned"
    /\ sql = Spaced(<<"/* DROP */", "SELECT", "\n">>)
    /\ cleaned(sql) = <<"SELECT">>
    /\ decision = Approved

\* The parser reports no statement type: the first token is not a DML or DDL
\* keyword and not WITH.
NoKnownType(raw) ==
    TType(Content(raw)[1]) \notin {"Keyword.DML", "Keyword.DDL", "Keyword.CTE"}

\* The statement types the caller has supplied, upper-cased.
SuppliedTypes == {Upper(allowed_statements.items[i]) : i \in DOMAIN allowed_statements.items}

\* C27: for one statement of which the parser reports no type, the kind
\* checked against the allow-list is the upper-cased first token: the
\* statement is rejected as a disallowed type exactly when that word is not
\* in the allow-list; under the default allow-list SHOW, DESCRIBE, DESC and
\* EXPLAIN in any letter case are approved when the body has no blocked word;
\* and a type the caller supplied in any letter case is approved likewise.
C27_FallbackKindIsUpperCasedHead ==
    decided /\ OneStatement(sql) /\ NoKnownType(sql) =>
        /\ decision.reason = DisallowedStatementType <=> HeadWord(sql) \notin _allowed
        /\ (allowed_statements = None /\ ~HasBlockedWord(sql)
               /\ HeadWord(sql) \in {"SHOW", "DESCRIBE", "DESC", "EXPLAIN"})
              => decision = Approved
        /\ (allowed_statements.items # <<>> /\ ~HasBlockedWord(sql)
               /\ HeadWord(sql) \in SuppliedTypes)
              => decision = Approved

C27_Witness ==
    /\ pc = "returned"
    /\ allowed_statements = List(<<"show", "USE">>)
    /\ sql = <<"show">>
    /\ decision = Approved

Adaptive == enhancer.class = "AdaptiveMemoryEnhancer"

\* C28: the adaptive search terminates for every configuration: the
\* thresholds it searches at start at initial_threshold, each is the one before
\* less threshold_step and strictly below it, none is below min_threshold, and
\* it goes on to a further search only while the last one returned fewer than
\* min_examples results.
C28_SearchTerminates ==
    Adaptive =>
        /\ searched # <<>> => searched[1] = enhancer.initial_threshold
        /\ \A i \in 1..Len(searched) : searched[i] >= enhancer.min_threshold
        /\ \A i \in 1..(Len(searched) - 1) :
              /\ searched[i + 1] = float_sub(searched[i], enhancer.threshold_step)
              /\ searched[i + 1] < searched[i]
        /\ epc = "searching" => Len(results) < enhancer.min_examples

\* Number of run_sql entries of the memory at or above min_threshold.
EntriesAboveMin ==
    Cardinality({i \in 1..Len(agent_memory.entries) :
                    agent_memory.entries[i].similarity >= enhancer.min_threshold})

\* The request has a user question: a message of role "user" with content.
HasUserQuestion ==
    \E i \in 1..Len(conversation) :
        conversation[i].role = "user" /\ conversation[i].content # ""

\* C29: when the memory, not written to during the call, holds at least
\* min_examples run_sql entries whose similarity is at or above min_threshold
\* and its search works, the adaptive search returns at least min_examples
\* results.
C29_EnoughExamplesFound ==
    (/\ Adaptive
     /\ epc \in {"returned", "raised"}
     /\ HasUserQuestion
     /\ agent_memory.present
     /\ ~agent_memory.fails
     /\ ~memory_written
     /\ EntriesAboveMin >= enhancer.min_examples)
        => Len(results) >= enhancer.min_examples

\* The text of a system message, empty for None.
TextOf(message) == IF message.none THEN <<>> ELSE message.text

\* C30: MemoryBasedEnhancer.enhance_context returns and never raises; without
\* a memory, without a user question, when the search raises or finds
\* nothing, the system message of the request is as it was; when a similar
\* query is found, the system message is longer and starts with the original
\* one.
C30_EnhancementKeepsRequest ==
    enhancer.class = "MemoryBasedEnhancer" =>
        /\ epc \in {"called", "searching", "returned"}
        /\ epc \in {"called", "searching"} => system_message = original_message
        /\ (~agent_memory.present \/ ~HasUserQuestion \/ agent_memory.fails)
              => results = <<>>
        /\ epc = "returned" =>
              IF results # <<>>
              THEN /\ ~system_message.none
                   /\ Len(system_message.text) > Len(TextOf(original_message))
                   /\ SubSeq(system_message.text, 1, Len(TextOf(original_message)))
                         = TextOf(original_message)
              ELSE system_message = original_message

====
